---- MODULE Spec2Model ----
(***************************************************************************)
(* Model of the dbt task executor (providers/dbt/core/operators.py,        *)
(* DBTBaseOperator) and of the graph converter's constructor               *)
(* (cosmos/converter.py, DbtToAirflowConverter.__init__).                  *)
(*                                                                         *)
(* Python values are tagged records so that None, "", 0, False, a string   *)
(* and an Enum member stay distinct: [t |-> type name, v |-> payload].     *)
(* A str's payload is its sequence of characters.                          *)
(***************************************************************************)
EXTENDS Integers, Sequences, FiniteSets, TLC

\* ---------------------------------------------------------------- bounds
NumProcs == 2      \* task executions the host scheduler may run at once
MaxRuns == 2       \* executions of one operator object that are followed

Procs == 1..NumProcs

\* --------------------------------------------------------- Python values
None == [t |-> "NoneType"]
PyStr(s) == [t |-> "str", v |-> s]
PyInt(n) == [t |-> "int", v |-> n]
PyBool(b) == [t |-> "bool", v |-> b]
True == PyBool(TRUE)
False == PyBool(FALSE)

Digit(d) == <<"0", "1", "2", "3", "4", "5", "6", "7", "8", "9">>[d + 1]

RECURSIVE NatToChars(_)
NatToChars(n) == IF n < 10 THEN <<Digit(n)>> ELSE NatToChars(n \div 10) \o <<Digit(n % 10)>>

\* str(x) of builtins: a str is returned as is, the others are rendered.
Str(x) ==
    CASE x.t = "str" -> x
      [] x.t = "int" -> PyStr(IF x.v < 0 THEN <<"-">> \o NatToChars(0 - x.v) ELSE NatToChars(x.v))
      [] x.t = "bool" -> PyStr(IF x.v THEN <<"T", "r", "u", "e">> ELSE <<"F", "a", "l", "s", "e">>)
      [] x.t = "NoneType" -> PyStr(<<"N", "o", "n", "e">>)

\* str.replace(old, new) for one-character old and new.
Replace(s, old, new) == [i \in 1..Len(s) |-> IF s[i] = old THEN new ELSE s[i]]

\* dict.update / the | operator on dicts: the right operand wins.
Update(a, b) == [k \in (DOMAIN a) \cup (DOMAIN b) |-> IF k \in DOMAIN b THEN b[k] ELSE a[k]]

EmptyDict == [k \in {} |-> None]

\* bool(x), as an if statement applies it.
Truthy(x) ==
    CASE x.t = "bool" -> x.v
      [] x.t = "int" -> x.v # 0
      [] x.t = "str" -> Len(x.v) > 0
      [] x.t = "NoneType" -> FALSE
      [] x.t = "dict" -> DOMAIN x.v # {}
      [] OTHER -> TRUE

PyDict(d) == [t |-> "dict", v |-> d]

\* ------------------------------------------------- the operator's fields
\* The characters of each attribute name used by add_global_flags.
AttrChars ==
    [project_dir |-> <<"p", "r", "o", "j", "e", "c", "t", "_", "d", "i", "r">>,
     select |-> <<"s", "e", "l", "e", "c", "t">>,
     exclude |-> <<"e", "x", "c", "l", "u", "d", "e">>,
     selector |-> <<"s", "e", "l", "e", "c", "t", "o", "r">>,
     vars |-> <<"v", "a", "r", "s">>,
     models |-> <<"m", "o", "d", "e", "l", "s">>,
     no_version_check |-> <<"n", "o", "_", "v", "e", "r", "s", "i", "o", "n", "_", "c", "h", "e", "c", "k">>,
     cache_selected_only |-> <<"c", "a", "c", "h", "e", "_", "s", "e", "l", "e", "c", "t", "e", "d", "_", "o", "n", "l", "y">>,
     fail_fast |-> <<"f", "a", "i", "l", "_", "f", "a", "s", "t">>,
     quiet |-> <<"q", "u", "i", "e", "t">>,
     warn_error |-> <<"w", "a", "r", "n", "_", "e", "r", "r", "o", "r">>]

global_flags == <<"project_dir", "select", "exclude", "selector", "vars", "models">>

global_boolean_flags == <<"no_version_check", "cache_selected_only", "fail_fast", "quiet", "warn_error">>

\* dbt_name with the underscores left in place.
dbt_name_raw(flag) == PyStr(<<"-", "-">> \o AttrChars[flag])

\* f"--{name.replace('_', '-')}"
dbt_name(flag) == PyStr(<<"-", "-">> \o Replace(AttrChars[flag], "_", "-"))

\* First loop of add_global_flags: a "--flag", str(value) pair for each
\* attribute that is not None.
RECURSIVE ValueFlags(_, _)
ValueFlags(self, i) ==
    IF i > Len(global_flags) THEN <<>>
    ELSE LET global_flag == global_flags[i]
             global_flag_value == self[global_flag]
         IN (IF global_flag_value # None
             THEN <<dbt_name(global_flag), Str(global_flag_value)>>
             ELSE <<>>) \o ValueFlags(self, i + 1)

\* Second loop of add_global_flags: the bare flag for each attribute that
\* is the object True.
RECURSIVE BooleanFlags(_, _)
BooleanFlags(self, i) ==
    IF i > Len(global_boolean_flags) THEN <<>>
    ELSE LET global_boolean_flag == global_boolean_flags[i]
             global_boolean_flag_value == self[global_boolean_flag]
         IN (IF global_boolean_flag_value = True
             THEN <<dbt_name(global_boolean_flag)>>
             ELSE <<>>) \o BooleanFlags(self, i + 1)

add_global_flags(self) == ValueFlags(self, 1) \o BooleanFlags(self, 1)

\* --------------------------------------------------- the project paths
\* What os.path.exists / os.path.isdir see at each path a project_dir may
\* name.  No operation of the program changes these.
PathX == PyStr(<<"/", "x">>)
PathF == PyStr(<<"/", "f">>)
PathM == PyStr(<<"/", "m">>)

PathKind(p) == IF p = PathX THEN "dir" ELSE IF p = PathF THEN "file" ELSE "absent"

path_exists(p) == PathKind(p) # "absent"
path_isdir(p) == PathKind(p) = "dir"

\* get_dbt_path without the isdir test.
get_dbt_path_check_exists_only(self) ==
    IF self.project_dir # None /\ ~path_exists(self.project_dir)
    THEN "AirflowException: Can not find the project_dir"
    ELSE "ok"

\* get_dbt_path: the error it raises, or "ok".
get_dbt_path_check(self) ==
    IF self.project_dir # None
    THEN IF ~path_exists(self.project_dir) THEN "AirflowException: Can not find the project_dir"
         ELSE IF ~path_isdir(self.project_dir) THEN "AirflowException: The project_dir must be a directory"
         ELSE "ok"
    ELSE "ok"

\* build_command: [dbt_path, self.base_cmd] + self.add_global_flags()
build_command(self, dbt_path) == <<dbt_path, self.base_cmd>> \o add_global_flags(self)

\* exception_handling with the non-zero test ahead of the skip test.
exception_handling_failure_first(self, result) ==
    IF result.exit_code # PyInt(0)
    THEN "AirflowException: dbt command failed"
    ELSE IF self.skip_exit_code # None /\ result.exit_code = self.skip_exit_code
    THEN "AirflowSkipException"
    ELSE "none"

\* exception_handling: the signal raised for a result, "none" when it returns.
exception_handling(self, result) ==
    IF self.skip_exit_code # None /\ result.exit_code = self.skip_exit_code
    THEN "AirflowSkipException"
    ELSE IF result.exit_code # PyInt(0)
    THEN "AirflowException: dbt command failed"
    ELSE "none"

\* get_env with the context variables laid under the other layers.
get_env_result_context_first(self, environ, airflow_context_vars) ==
    LET system_env == environ
        env == IF self.env = None THEN system_env
               ELSE IF Truthy(self.append_env) THEN Update(system_env, self.env.v)
               ELSE self.env.v
    IN Update(airflow_context_vars, env)

\* get_env: the mapping returned, given os.environ and the context variables.
get_env_result(self, environ, airflow_context_vars) ==
    LET system_env == environ
        env == IF self.env = None THEN system_env
               ELSE IF Truthy(self.append_env) THEN Update(system_env, self.env.v)
               ELSE self.env.v
    IN Update(env, airflow_context_vars)

\* get_env's effect on self.env: with env given and append_env false the
\* local name env is the very dict self.env, and env.update mutates it.
get_env_self_env(self, airflow_context_vars) ==
    IF self.env # None /\ ~Truthy(self.append_env)
    THEN PyDict(Update(self.env.v, airflow_context_vars))
    ELSE self.env

\* ------------------------------------------------- credential records
Chars_postgres == <<"p", "o", "s", "t", "g", "r", "e", "s">>
Chars_mysql == <<"m", "y", "s", "q", "l">>

\* A connection as BaseHook.get_connection returns it.  The attributes are
\* the ones map_profile reads on the supported path; the record has no
\* attribute named type.
Connection(conn_type) ==
    [conn_type |-> PyStr(conn_type),
     host |-> PyStr(<<"h">>),
     login |-> PyStr(<<"u">>),
     password |-> PyStr(<<"p", "w">>),
     schema |-> PyStr(<<"d", "b">>),
     port |-> PyInt(5432)]

get_connection(conn_id) == IF conn_id = "pg" THEN Connection(Chars_postgres) ELSE Connection(Chars_mysql)

HasAttr(obj, name) == name \in DOMAIN obj

\* map_profile: the profile name and variables returned, or how it ends.
map_profile(self) ==
    LET conn == get_connection(self.conn_id)
    IN IF conn.conn_type = PyStr(Chars_postgres)
       THEN [signal |-> "none",
             profile |-> PyStr(Chars_postgres \o <<"_", "p", "r", "o", "f", "i", "l", "e">>),
             profile_vars |-> [POSTGRES_HOST |-> conn.host,
                               POSTGRES_USER |-> conn.login,
                               POSTGRES_PASSWORD |-> conn.password,
                               POSTGRES_DATABASE |-> conn.schema,
                               POSTGRES_PORT |-> Str(conn.port),
                               POSTGRES_SCHEMA |-> self.schema],
             stderr |-> <<>>]
       ELSE IF HasAttr(conn, "type")
       THEN [signal |-> "SystemExit", profile |-> None, profile_vars |-> EmptyDict,
             stderr |-> <<"Connection type is not yet supported.">>]
       ELSE [signal |-> "AttributeError", profile |-> None, profile_vars |-> EmptyDict,
             stderr |-> <<>>]

\* ------------------------------------------------ the profile file
Absent == "absent"
Truncated == "truncated"
DefaultProfile == "postgres_profile"
CustomProfile == "custom_profile"

\* ---------------------------------------------------------------- state
VARIABLES
    scheduled,   \* the task executions the host runs
    stimuli,     \* what the surroundings can hand an execution
    environ,     \* os.environ of the worker
    dir_exists,  \* /home/astro/.dbt exists
    file,        \* content of /home/astro/.dbt/profiles.yml, or Absent
    fs_log,      \* what has been done to the profile file so far
    op,          \* op[p]: the operator object of execution p
    declared,    \* declared[p]: the operator as its constructor left it
    runs,        \* runs[p]: executions of op[p] started
    pc,          \* pc[p]: position of execution p inside execute
    frame,       \* frame[p]: the locals of execute
    outcome,     \* outcome[p]: how execute ended and what it did outside
    conv         \* the converter's constructor: arguments, position, effects

vars == <<scheduled, stimuli, environ, dir_exists, file, fs_log, op, declared, runs, pc, frame, outcome, conv>>

execVars == <<scheduled, stimuli, environ, dir_exists, file, fs_log, op, declared, runs, pc, frame, outcome>>

EmptyFrame ==
    [context |-> EmptyDict, dbt_path |-> None, sub |-> None, env_in |-> None,
     profile |-> None, profile_vars |-> EmptyDict,
     env |-> EmptyDict, cmd |-> <<>>, result |-> None]

NoOutcome ==
    [signal |-> "none", raised_in |-> "none", ret |-> None, stderr |-> <<>>,
     exit_status |-> None, launched |-> None]

Raise(p, sig, where) ==
    /\ outcome' = [outcome EXCEPT ![p].signal = sig, ![p].raised_in = where]
    /\ pc' = [pc EXCEPT ![p] = "done"]

\* execute is entered: the context of this run and what the worker will
\* find (the dbt on PATH, the subprocess's result) are fixed here.
Execute(p) ==
    /\ p \in scheduled
    /\ pc[p] \in {"idle", "done"}
    /\ runs[p] < MaxRuns
    /\ \E s \in stimuli :
          frame' = [frame EXCEPT ![p] = [EmptyFrame EXCEPT !.context = s.context,
                                                            !.dbt_path = s.dbt_path,
                                                            !.sub = s.result,
                                                            !.env_in = op[p].env]]
    /\ outcome' = [outcome EXCEPT ![p] = NoOutcome]
    /\ runs' = [runs EXCEPT ![p] = @ + 1]
    /\ pc' = [pc EXCEPT ![p] = "check_dir"]
    /\ UNCHANGED <<scheduled, stimuli, environ, dir_exists, file, fs_log, op, declared, conv>>

\* create_default_profiles: os.path.exists(directory_path)
CheckDir(p) ==
    /\ pc[p] = "check_dir"
    /\ pc' = [pc EXCEPT ![p] = IF ~dir_exists THEN "makedirs" ELSE "check_file"]
    /\ UNCHANGED <<scheduled, stimuli, environ, dir_exists, file, fs_log, op, declared, runs, frame, outcome, conv>>

\* create_default_profiles: os.makedirs(directory_path), which raises
\* FileExistsError when the directory is there.
MakeDirs(p) ==
    /\ pc[p] = "makedirs"
    /\ IF dir_exists
       THEN /\ Raise(p, "FileExistsError", "create_default_profiles")
            /\ UNCHANGED dir_exists
       ELSE /\ dir_exists' = TRUE
            /\ pc' = [pc EXCEPT ![p] = "check_file"]
            /\ UNCHANGED outcome
    /\ UNCHANGED <<scheduled, stimuli, environ, file, fs_log, op, declared, runs, frame, conv>>

\* create_default_profiles: os.path.exists(file_path)
CheckFile(p) ==
    /\ pc[p] = "check_file"
    /\ pc' = [pc EXCEPT ![p] = IF file = Absent THEN "open_file" ELSE "map_profile"]
    /\ UNCHANGED <<scheduled, stimuli, environ, dir_exists, file, fs_log, op, declared, runs, frame, outcome, conv>>

\* create_default_profiles: open(file_path, "w") creates the file or
\* truncates the one that is there.
OpenFile(p) ==
    /\ pc[p] = "open_file"
    /\ file' = Truncated
    /\ fs_log' = [fs_log EXCEPT !.opens = @ + 1,
                                !.overwrote = @ \/ file # Absent]
    /\ pc' = [pc EXCEPT ![p] = "dump_file"]
    /\ UNCHANGED <<scheduled, stimuli, environ, dir_exists, op, declared, runs, frame, outcome, conv>>

\* create_default_profiles: yaml.dump(profile, file) and the close
DumpFile(p) ==
    /\ pc[p] = "dump_file"
    /\ file' = DefaultProfile
    /\ pc' = [pc EXCEPT ![p] = "map_profile"]
    /\ UNCHANGED <<scheduled, stimuli, environ, dir_exists, fs_log, op, declared, runs, frame, outcome, conv>>

\* execute: profile, profile_vars = self.map_profile()
MapProfile(p) ==
    /\ pc[p] = "map_profile"
    /\ LET r == map_profile(op[p])
       IN IF r.signal = "none"
          THEN /\ frame' = [frame EXCEPT ![p].profile = r.profile,
                                         ![p].profile_vars = r.profile_vars]
               /\ pc' = [pc EXCEPT ![p] = "get_env"]
               /\ UNCHANGED outcome
          ELSE /\ outcome' = [outcome EXCEPT ![p].signal = r.signal,
                                             ![p].raised_in = "map_profile",
                                             ![p].stderr = @ \o r.stderr,
                                             ![p].exit_status =
                                                 IF r.signal = "SystemExit" THEN PyInt(1) ELSE @]
               /\ pc' = [pc EXCEPT ![p] = "done"]
               /\ UNCHANGED frame
    /\ UNCHANGED <<scheduled, stimuli, environ, dir_exists, file, fs_log, op, declared, runs, conv>>

\* execute: env = self.get_env(context) | profile_vars
GetEnv(p) ==
    /\ pc[p] = "get_env"
    /\ frame' = [frame EXCEPT ![p].env =
                    Update(get_env_result(op[p], environ, frame[p].context), frame[p].profile_vars)]
    /\ op' = [op EXCEPT ![p].env = get_env_self_env(op[p], frame[p].context)]
    /\ pc' = [pc EXCEPT ![p] = "build_command"]
    /\ UNCHANGED <<scheduled, stimuli, environ, dir_exists, file, fs_log, declared, runs, outcome, conv>>

\* execute: cmd = self.build_command() + ["--profile", profile]
BuildCommand(p) ==
    /\ pc[p] = "build_command"
    /\ LET check == get_dbt_path_check(op[p])
       IN IF check # "ok"
          THEN /\ Raise(p, check, "build_command")
               /\ UNCHANGED frame
          ELSE /\ frame' = [frame EXCEPT ![p].cmd =
                              build_command(op[p], frame[p].dbt_path)
                                  \o <<PyStr(<<"-", "-", "p", "r", "o", "f", "i", "l", "e">>), frame[p].profile>>]
               /\ pc' = [pc EXCEPT ![p] = "run_command"]
               /\ UNCHANGED outcome
    /\ UNCHANGED <<scheduled, stimuli, environ, dir_exists, file, fs_log, op, declared, runs, conv>>

\* execute: result = self.run_command(cmd=cmd, env=env); return result.output
\* The subprocess runs to its end inside the blocking call.
RunCommand(p) ==
    /\ pc[p] = "run_command"
    /\ LET result == frame[p].sub
           sig == exception_handling(op[p], result)
       IN /\ frame' = [frame EXCEPT ![p].result = result]
          /\ outcome' = [outcome EXCEPT
                 ![p].launched = [command |-> frame[p].cmd, env |-> frame[p].env,
                                  cwd |-> op[p].project_dir],
                 ![p].signal = sig,
                 ![p].raised_in = IF sig = "none" THEN "none" ELSE "run_command",
                 ![p].ret = IF sig = "none" THEN result.output ELSE None]
    /\ pc' = [pc EXCEPT ![p] = "done"]
    /\ UNCHANGED <<scheduled, stimuli, environ, dir_exists, file, fs_log, op, declared, runs, conv>>

Next ==
    \E p \in Procs :
        \/ Execute(p)
        \/ CheckDir(p)
        \/ MakeDirs(p)
        \/ CheckFile(p)
        \/ OpenFile(p)
        \/ DumpFile(p)
        \/ MapProfile(p)
        \/ GetEnv(p)
        \/ BuildCommand(p)
        \/ RunCommand(p)

\* ------------------------------------------------------ construction
DefaultSkipExitCode == 99

\* DBTBaseOperator.__init__: the keyword defaults, overridden by kwargs.
DBTBaseOperator(kwargs) ==
    Update([base_cmd |-> None, select |-> None, exclude |-> None, selector |-> None,
            vars |-> None, models |-> None,
            cache_selected_only |-> False, no_version_check |-> False, fail_fast |-> False,
            quiet |-> False, warn_error |-> False,
            schema |-> None, env |-> None, append_env |-> False,
            output_encoding |-> PyStr(<<"u", "t", "f", "-", "8">>),
            skip_exit_code |-> PyInt(DefaultSkipExitCode)],
           kwargs)

S_run == PyStr(<<"r", "u", "n">>)
S_dbt == PyStr(<<"d", "b", "t">>)
S_bin_dbt == PyStr(<<"/", "b", "i", "n", "/", "d", "b", "t">>)
S_a == PyStr(<<"a">>)
S_b == PyStr(<<"b">>)
S_c == PyStr(<<"c">>)
S_empty == PyStr(<<>>)
S_tag_a == PyStr(<<"t", "a", "g", ":", "a">>)

BaseKwargs == [project_dir |-> PathX, conn_id |-> "pg", base_cmd |-> S_run]

\* context_to_airflow_vars(context, in_env_var_format=True)
ContextA == [AIRFLOW_CTX_DAG_ID |-> S_a, AIRFLOW_CTX_TASK_ID |-> S_b]
ContextB == [AIRFLOW_CTX_DAG_ID |-> S_a, AIRFLOW_CTX_EXECUTION_DATE |-> S_c]

Result(code, out) == [exit_code |-> PyInt(code), output |-> out]

Stimulus(context, dbt_path, result) == [context |-> context, dbt_path |-> dbt_path, result |-> result]

Environ1 == [PATH |-> S_a, HOME |-> S_b]
Environ2 == [PATH |-> S_a, AIRFLOW_CTX_DAG_ID |-> S_c, POSTGRES_HOST |-> S_c]

ConvIdle == [pc |-> "off"]

\* <<directory exists, content of the profile file>>
FsFresh == <<FALSE, Absent>>
FsAll == {FsFresh, <<TRUE, Absent>>, <<TRUE, CustomProfile>>}

\* The state before any execution: the operators as constructed, the
\* filesystem with or without the profile directory and file.
InitExec(Scheduled, Kwargs, Stimuli, Environs, FsStates) ==
    /\ scheduled = Scheduled
    /\ stimuli = Stimuli
    /\ environ \in Environs
    /\ \E fs \in FsStates :
          /\ dir_exists = fs[1]
          /\ file = fs[2]
          /\ fs_log = [opens |-> 0, overwrote |-> FALSE, dir_at_start |-> fs[1], file_at_start |-> fs[2]]
    /\ \E kw \in [Scheduled -> Kwargs] :
          op = [p \in Procs |-> DBTBaseOperator(IF p \in Scheduled THEN kw[p] ELSE BaseKwargs)]
    /\ declared = op
    /\ runs = [p \in Procs |-> 0]
    /\ pc = [p \in Procs |-> "idle"]
    /\ frame = [p \in Procs |-> EmptyFrame]
    /\ outcome = [p \in Procs |-> NoOutcome]
    /\ conv = ConvIdle

\* Concurrent executions of identically configured tasks.
Init ==
    InitExec(Procs, {BaseKwargs},
             {Stimulus(ContextA, S_dbt, Result(0, S_a))}, {Environ1}, FsAll)

Spec == Init /\ [][Next]_vars

\* One execution at a time, over every connection kind, project path,
\* skip code and subprocess exit code.
InitRun ==
    InitExec({1},
             {[project_dir |-> d, conn_id |-> c, base_cmd |-> S_run, skip_exit_code |-> k] :
                 d \in {None, PathX, PathF, PathM}, c \in {"pg", "my"},
                 k \in {None, PyInt(0), PyInt(2), PyInt(DefaultSkipExitCode)}},
             {Stimulus(ContextA, S_dbt, Result(code, out)) :
                 code \in {0, 1, 2, DefaultSkipExitCode}, out \in {S_a, S_empty}},
             {Environ1}, FsAll)

SpecRun == InitRun /\ [][Next]_vars

\* One operator executed repeatedly, over every shape of env and append_env.
InitEnv ==
    InitExec({1},
             {[project_dir |-> PathX, conn_id |-> "pg", base_cmd |-> S_run, env |-> e, append_env |-> a] :
                 e \in {None, PyDict(EmptyDict), PyDict([K |-> S_a]),
                        PyDict([PATH |-> S_b, AIRFLOW_CTX_DAG_ID |-> S_b]),
                        PyDict([POSTGRES_HOST |-> S_b, AIRFLOW_CTX_TASK_ID |-> S_c])},
                 a \in {True, False}},
             {Stimulus(c, S_dbt, Result(0, S_a)) : c \in {ContextA, ContextB}},
             {Environ1, Environ2}, FsAll)

SpecEnv == InitEnv /\ [][Next]_vars

\* One execution at a time, over every combination of the flag fields.
InitCmd ==
    InitExec({1},
             {[project_dir |-> d, conn_id |-> "pg", base_cmd |-> S_run,
               select |-> f1, exclude |-> f2, selector |-> f3, vars |-> f4, models |-> f5,
               no_version_check |-> b1, cache_selected_only |-> b2, fail_fast |-> b3,
               quiet |-> b4, warn_error |-> b5] :
                 d \in {None, PathX}, f1 \in {None, S_tag_a, S_empty}, f2 \in {None, S_b},
                 f3 \in {None, S_c}, f4 \in {None, S_a, PyInt(7)}, f5 \in {None, S_a},
                 b1 \in {True, False}, b2 \in {True, False}, b3 \in {True, False, PyInt(1)},
                 b4 \in {True, False}, b5 \in {True, False}},
             {Stimulus(ContextA, d, Result(0, S_a)) : d \in {S_dbt, S_bin_dbt}},
             {Environ1}, {FsFresh})

SpecCmd == InitCmd /\ [][Next]_vars

\* ------------------------------------------------------ the converter
Enum(class, value) == [t |-> class, v |-> value]

S_local == PyStr(<<"l", "o", "c", "a", "l">>)
S_virtualenv == PyStr(<<"v", "i", "r", "t", "u", "a", "l", "e", "n", "v">>)
S_docker == PyStr(<<"d", "o", "c", "k", "e", "r">>)
S_kubernetes == PyStr(<<"k", "u", "b", "e", "r", "n", "e", "t", "e", "s">>)
S_after_each == PyStr(<<"a", "f", "t", "e", "r", "_", "e", "a", "c", "h">>)
S_after_all == PyStr(<<"a", "f", "t", "e", "r", "_", "a", "l", "l">>)
S_none == PyStr(<<"n", "o", "n", "e">>)
S_automatic == PyStr(<<"a", "u", "t", "o", "m", "a", "t", "i", "c">>)
S_bogus == PyStr(<<"b", "o", "g", "u", "s">>)

\* The values of the enums of cosmos.constants.  The members are plain
\* Enum members: a member equals itself only, never the string it wraps.
EnumValues(class) ==
    CASE class = "ExecutionMode" -> {S_local, S_docker, S_kubernetes, S_virtualenv}
      [] class = "TestBehavior" -> {S_none, S_after_each, S_after_all}
      [] class = "LoadMode" -> {S_automatic}

\* convert_value_to_enum: the member, or the error raised.
convert_value_to_enum(value, enum_class) ==
    IF value.t = "str"
    THEN IF value \in EnumValues(enum_class)
         THEN [error |-> "none", value |-> Enum(enum_class, value)]
         ELSE [error |-> "UserInputError", value |-> None]
    ELSE [error |-> "none", value |-> value]

\* x in [a, b]: list membership compares with ==.
InList(x, list) == \E i \in 1..Len(list) : list[i] = x

\* The first test of __init__: a local or virtualenv mode without profile.
profile_config_missing(execution_mode, profile_config) ==
    InList(execution_mode, <<S_local, S_virtualenv>>) /\ ~Truthy(profile_config)

StartsWith(s, prefix) == Len(s) >= Len(prefix) /\ SubSeq(s, 1, Len(prefix)) = prefix

LabelPrefix(label) == IF label = "tags" THEN <<"t", "a", "g", ":">> ELSE <<"p", "a", "t", "h", ":">>

\* cosmos.dbt.selector.retrieve_by_label: the values the statements give
\* for a label, "tag:<value>" for tags and "path:<value>" for paths.
retrieve_by_label(statement_list, label) ==
    {SubSeq(statement_list[i].v, Len(LabelPrefix(label)) + 1, Len(statement_list[i].v)) :
        i \in {j \in 1..Len(statement_list) : StartsWith(statement_list[j].v, LabelPrefix(label))}}

\* validate_arguments looking at tags only.
validate_fields_tags_only == <<"tags">>

validate_fields == <<"tags", "paths">>

\* validate_arguments: the error raised, or "none".
RECURSIVE validate_selectors(_, _, _)
validate_selectors(select, exclude, i) ==
    IF i > Len(validate_fields) THEN "none"
    ELSE LET field == validate_fields[i]
             select_items == retrieve_by_label(select, field)
             exclude_items == retrieve_by_label(exclude, field)
             intersection == select_items \cap exclude_items
         IN IF intersection # {}
            THEN IF field = "tags"
                 THEN "AirflowException: Can't specify the same tag in select and exclude"
                 ELSE "AirflowException: Can't specify the same path in select and exclude"
            ELSE validate_selectors(select, exclude, i + 1)

validate_arguments(select, exclude, task_args) ==
    LET e == validate_selectors(select, exclude, 1)
    IN IF e # "none" THEN e
       ELSE IF "schema" \in DOMAIN task_args
       THEN "AirflowException: The schema argument is no longer supported"
       ELSE "none"

\* x or []
OrEmptyList(x) == IF x = None THEN <<>> ELSE x.v

PyList(l) == [t |-> "list", v |-> l]

\* DbtToAirflowConverter.__init__'s keyword defaults, overridden by kwargs.
ConverterArgs(kwargs) ==
    Update([profile_config |-> None, dbt_args |-> EmptyDict, operator_args |-> EmptyDict,
            test_behavior |-> Enum("TestBehavior", S_after_each),
            select |-> None, exclude |-> None,
            execution_mode |-> Enum("ExecutionMode", S_local),
            load_mode |-> Enum("LoadMode", S_automatic)],
           kwargs)

\* cosmos.airflow.graph.build_airflow_graph: one task per node, a test task
\* after each model or one test task after all of them, by the policy.
build_airflow_graph(nodes, test_behavior) ==
    {[name |-> n.name, kind |-> "run"] : n \in nodes}
    \cup (IF test_behavior = Enum("TestBehavior", S_after_each)
          THEN {[name |-> n.name, kind |-> "test"] : n \in {m \in nodes : m.kind = "model" /\ m.has_test}}
          ELSE IF test_behavior = Enum("TestBehavior", S_after_all) /\ nodes # {}
          THEN {[name |-> "project", kind |-> "test"]}
          ELSE {})

ConvFail(error) == conv' = [conv EXCEPT !.pc = "failed", !.error = error]

\* __init__: select = select or [] ... the ProfileConfig test
CheckProfileConfig ==
    /\ conv.pc = "start"
    /\ IF profile_config_missing(conv.args.execution_mode, conv.args.profile_config)
       THEN ConvFail("ValueError: a ProfileConfig must be provided")
       ELSE conv' = [conv EXCEPT !.pc = "convert",
                                 !.select = OrEmptyList(conv.args.select),
                                 !.exclude = OrEmptyList(conv.args.exclude)]
    /\ UNCHANGED execVars

\* __init__: the three convert_value_to_enum calls
ConvertEnums ==
    /\ conv.pc = "convert"
    /\ LET tb == convert_value_to_enum(conv.args.test_behavior, "TestBehavior")
           em == convert_value_to_enum(conv.args.execution_mode, "ExecutionMode")
           lm == convert_value_to_enum(conv.args.load_mode, "LoadMode")
       IN IF tb.error # "none" THEN ConvFail(tb.error)
          ELSE IF em.error # "none" THEN ConvFail(em.error)
          ELSE IF lm.error # "none" THEN ConvFail(lm.error)
          ELSE conv' = [conv EXCEPT !.pc = "load", !.test_behavior = tb.value,
                                    !.execution_mode = em.value, !.load_mode = lm.value]
    /\ UNCHANGED execVars

\* __init__: DbtProject(...), DbtGraph(...), dbt_graph.load(...): the
\* loader hands back the project's nodes or raises.
LoadGraph ==
    /\ conv.pc = "load"
    /\ \/ \E ns \in SUBSET conv.project :
             conv' = [conv EXCEPT !.pc = "validate", !.load_called = TRUE, !.nodes = ns]
       \/ conv' = [conv EXCEPT !.pc = "failed", !.load_called = TRUE, !.error = "CosmosLoadDbtException"]
    /\ UNCHANGED execVars

\* __init__: task_args = {...}; validate_arguments(select, exclude, task_args)
Validate ==
    /\ conv.pc = "validate"
    /\ LET task_args == Update(Update(conv.args.dbt_args, conv.args.operator_args),
                               [project_dir |-> PathX, profile_config |-> conv.args.profile_config])
           e == validate_arguments(conv.select, conv.exclude, task_args)
       IN IF e # "none" THEN ConvFail(e)
          ELSE conv' = [conv EXCEPT !.pc = "build", !.task_args = task_args]
    /\ UNCHANGED execVars

\* __init__: build_airflow_graph(...) registers the tasks in the target.
BuildGraph ==
    /\ conv.pc = "build"
    /\ conv' = [conv EXCEPT !.pc = "done", !.build_called = TRUE,
                            !.dag = @ \cup build_airflow_graph(conv.nodes, conv.test_behavior)]
    /\ UNCHANGED execVars

NextConv ==
    \/ CheckProfileConfig
    \/ ConvertEnums
    \/ LoadGraph
    \/ Validate
    \/ BuildGraph

S_tag_b == PyStr(<<"t", "a", "g", ":", "b">>)
S_path_a == PyStr(<<"p", "a", "t", "h", ":", "a">>)
S_config_a == PyStr(<<"c", "o", "n", "f", "i", "g", ".", "x", ":", "a">>)

ProfileConfig == [t |-> "ProfileConfig"]

Project == {[name |-> "m1", kind |-> "model", has_test |-> TRUE],
            [name |-> "s1", kind |-> "seed", has_test |-> FALSE]}

Selectors == {None, PyList(<<>>), PyList(<<S_tag_a>>), PyList(<<S_path_a>>),
              PyList(<<S_tag_b, S_path_a>>), PyList(<<S_config_a, S_tag_a>>)}

ModeKwargs == {EmptyDict} \cup {[execution_mode |-> m] :
                  m \in {S_local, S_virtualenv, S_docker, S_bogus,
                         Enum("ExecutionMode", S_local), Enum("ExecutionMode", S_virtualenv),
                         Enum("ExecutionMode", S_kubernetes)}}

\* The converter is constructed: its arguments, the target container.
InitConv ==
    /\ scheduled = {}
    /\ stimuli = {}
    /\ environ = Environ1
    /\ dir_exists = FALSE
    /\ file = Absent
    /\ fs_log = [opens |-> 0, overwrote |-> FALSE, dir_at_start |-> FALSE, file_at_start |-> Absent]
    /\ op = [p \in Procs |-> DBTBaseOperator(BaseKwargs)]
    /\ declared = op
    /\ runs = [p \in Procs |-> 0]
    /\ pc = [p \in Procs |-> "idle"]
    /\ frame = [p \in Procs |-> EmptyFrame]
    /\ outcome = [p \in Procs |-> NoOutcome]
    /\ \E mode \in ModeKwargs, pcfg \in {None, ProfileConfig}, sel \in Selectors, exc \in Selectors,
          tb \in {Enum("TestBehavior", S_after_each), S_after_all, S_none, S_bogus},
          dargs \in {EmptyDict, [schema |-> S_a]},
          dag0 \in {{}, {[name |-> "pre", kind |-> "run"]}} :
          conv = [pc |-> "start",
                  args |-> ConverterArgs(Update(mode, [profile_config |-> pcfg, select |-> sel,
                                                       exclude |-> exc, test_behavior |-> tb,
                                                       dbt_args |-> dargs])),
                  project |-> Project,
                  select |-> <<>>, exclude |-> <<>>,
                  test_behavior |-> None, execution_mode |-> None, load_mode |-> None,
                  nodes |-> {}, task_args |-> EmptyDict,
                  error |-> "none", load_called |-> FALSE, build_called |-> FALSE,
                  dag0 |-> dag0, dag |-> dag0]

SpecConv == InitConv /\ [][NextConv]_vars

\* ================================================================ claims

Launched(p) == outcome[p].launched # None

IsFailure(sig) == sig = "AirflowException: dbt command failed"

\* C1 (as stated): an exit code equal to the configured skip code yields a
\* skip signal, any other non-zero exit code a failure signal, and exit
\* code zero success with execute returning the captured output.
C1_ExitCodeClassification ==
    \A p \in Procs :
        (pc[p] = "done" /\ Launched(p)) =>
            LET code == frame[p].sub.exit_code
                skip == declared[p].skip_exit_code
                sig == outcome[p].signal
            IN /\ (code = skip) => sig = "AirflowSkipException"
               /\ (code # skip /\ code # PyInt(0)) => IsFailure(sig)
               /\ (code = PyInt(0)) => (sig = "none" /\ outcome[p].ret = frame[p].sub.output)

\* C1 (amended): the skip test comes first, so exit code zero yields
\* success and the captured output only when the skip code is not zero;
\* with no skip code configured every non-zero code is a failure.
C1_ExitCodeClassification_Amended ==
    \A p \in Procs :
        (pc[p] = "done" /\ Launched(p)) =>
            LET code == frame[p].sub.exit_code
                skip == declared[p].skip_exit_code
                sig == outcome[p].signal
            IN /\ (code = skip) => (sig = "AirflowSkipException" /\ outcome[p].ret = None)
               /\ (code # skip /\ code # PyInt(0)) => (IsFailure(sig) /\ outcome[p].ret = None)
               /\ (code = PyInt(0) /\ skip # PyInt(0)) =>
                      (sig = "none" /\ outcome[p].ret = frame[p].sub.output)

C1_Witness ==
    \E p \in Procs :
        /\ pc[p] = "done" /\ Launched(p)
        /\ frame[p].sub.exit_code = PyInt(0)
        /\ declared[p].skip_exit_code = PyInt(0)
        /\ outcome[p].signal = "AirflowSkipException"

\* The tokens the documentation lists, written out flag by flag.
Pair(flag, value) ==
    IF value = None THEN <<>>
    ELSE <<PyStr(flag), IF value = PyInt(7) THEN PyStr(<<"7">>) ELSE value>>

Bare(flag, value) == IF value = True THEN <<PyStr(flag)>> ELSE <<>>

ExpectedFlags(o) ==
    Pair(<<"-", "-", "p", "r", "o", "j", "e", "c", "t", "-", "d", "i", "r">>, o.project_dir)
    \o Pair(<<"-", "-", "s", "e", "l", "e", "c", "t">>, o.select)
    \o Pair(<<"-", "-", "e", "x", "c", "l", "u", "d", "e">>, o.exclude)
    \o Pair(<<"-", "-", "s", "e", "l", "e", "c", "t", "o", "r">>, o.selector)
    \o Pair(<<"-", "-", "v", "a", "r", "s">>, o.vars)
    \o Pair(<<"-", "-", "m", "o", "d", "e", "l", "s">>, o.models)
    \o Bare(<<"-", "-", "n", "o", "-", "v", "e", "r", "s", "i", "o", "n", "-", "c", "h", "e", "c", "k">>, o.no_version_check)
    \o Bare(<<"-", "-", "c", "a", "c", "h", "e", "-", "s", "e", "l", "e", "c", "t", "e", "d", "-", "o", "n", "l", "y">>, o.cache_selected_only)
    \o Bare(<<"-", "-", "f", "a", "i", "l", "-", "f", "a", "s", "t">>, o.fail_fast)
    \o Bare(<<"-", "-", "q", "u", "i", "e", "t">>, o.quiet)
    \o Bare(<<"-", "-", "w", "a", "r", "n", "-", "e", "r", "r", "o", "r">>, o.warn_error)

ExampleOperator ==
    DBTBaseOperator([project_dir |-> PathX, conn_id |-> "pg", base_cmd |-> S_run,
                     select |-> S_tag_a, fail_fast |-> True])

\* C2: the command is dbt_path, base_cmd, the "--flag value" pairs of the
\* set value fields in the fixed order, the bare flags of the boolean
\* fields that are True in the fixed order, then --profile <name>, and
\* nothing else; for project_dir="/x", select="tag:a", fail_fast=True the
\* part build_command assembles is exactly the seven documented tokens.
C2_CommandTokens ==
    \A p \in Procs :
        (frame[p].cmd # <<>>) =>
            /\ frame[p].cmd =
                   <<frame[p].dbt_path, op[p].base_cmd>> \o ExpectedFlags(op[p])
                   \o <<PyStr(<<"-", "-", "p", "r", "o", "f", "i", "l", "e">>),
                        PyStr(<<"p", "o", "s", "t", "g", "r", "e", "s", "_", "p", "r", "o", "f", "i", "l", "e">>)>>
            /\ (op[p] = ExampleOperator) =>
                   SubSeq(frame[p].cmd, 1, Len(frame[p].cmd) - 2) =
                       <<frame[p].dbt_path, S_run,
                         PyStr(<<"-", "-", "p", "r", "o", "j", "e", "c", "t", "-", "d", "i", "r">>), PathX,
                         PyStr(<<"-", "-", "s", "e", "l", "e", "c", "t">>), S_tag_a,
                         PyStr(<<"-", "-", "f", "a", "i", "l", "-", "f", "a", "s", "t">>)>>

C2_Witness ==
    \E p \in Procs :
        /\ Launched(p)
        /\ op[p] = ExampleOperator
        /\ Len(outcome[p].launched.command) = 9

KeysOf(d) == IF d = None THEN {} ELSE DOMAIN d.v

\* C3 (as stated): the subprocess environment holds every key of the
\* inherited environment, of the declared env and of the context
\* variables, and a context variable's value wins over every other value.
C3_EnvThreeLayers ==
    \A p \in Procs :
        Launched(p) =>
            LET e == outcome[p].launched.env
                context == frame[p].context
            IN \A k \in (DOMAIN environ) \cup KeysOf(declared[p].env) \cup (DOMAIN context) :
                  /\ k \in DOMAIN e
                  /\ (k \in DOMAIN context) => e[k] = context[k]

\* C3 (amended): the context variables are always present and win; the
\* keys of the operator's env are present; the inherited environment is
\* merged in only when env is None or append_env is true, and otherwise
\* env replaces it; the credential variables are laid on top under their
\* own POSTGRES_ keys.
C3_EnvThreeLayers_Amended ==
    \A p \in Procs :
        Launched(p) =>
            LET e == outcome[p].launched.env
                context == frame[p].context
                user == frame[p].env_in
                creds == frame[p].profile_vars
                inherits == user = None \/ Truthy(declared[p].append_env)
                above == (DOMAIN context) \cup (DOMAIN creds)
            IN /\ \A k \in DOMAIN context : k \in DOMAIN e /\ e[k] = context[k]
               /\ \A k \in DOMAIN creds : k \in DOMAIN e /\ e[k] = creds[k]
               /\ \A k \in KeysOf(user) : k \in DOMAIN e /\ (k \notin above => e[k] = user.v[k])
               /\ inherits => \A k \in DOMAIN environ :
                      k \in DOMAIN e /\ (k \notin above \cup KeysOf(user) => e[k] = environ[k])
               /\ ~inherits => DOMAIN e = KeysOf(user) \cup above

C3_Witness ==
    \E p \in Procs :
        /\ Launched(p)
        /\ declared[p].env = PyDict([K |-> S_a])
        /\ ~Truthy(declared[p].append_env)
        /\ "PATH" \notin DOMAIN outcome[p].launched.env
        /\ outcome[p].launched.env["AIRFLOW_CTX_DAG_ID"] = S_a

\* C4: over any executions and interleavings the default profile file is
\* written at most once, only when absent, and never overwritten.
C4_ProfileWrittenAtMostOnce == fs_log.opens <= 1 /\ ~fs_log.overwrote

\* C5: when a value appears under the same label (tag, path) in both
\* select and exclude, construction fails before build_airflow_graph is
\* called, no task is created and the target is left as it was; once the
\* graph has been loaded the failure is the selector error.
SameLabelOverlap ==
    LET select == OrEmptyList(conv.args.select)
        exclude == OrEmptyList(conv.args.exclude)
    IN \E i \in 1..Len(select), j \in 1..Len(exclude) :
          /\ select[i] = exclude[j]
          /\ select[i] \in {S_tag_a, S_tag_b, S_path_a}

C5_OverlapFailsBeforeBuild ==
    SameLabelOverlap =>
        /\ conv.pc \notin {"build", "done"}
        /\ ~conv.build_called
        /\ conv.dag = conv.dag0
        /\ (conv.pc = "failed") => conv.error # "none"
        /\ (conv.pc = "failed" /\ conv.load_called /\ conv.error # "CosmosLoadDbtException") =>
               conv.error \in {"AirflowException: Can't specify the same tag in select and exclude",
                               "AirflowException: Can't specify the same path in select and exclude"}

C5_Witness ==
    /\ SameLabelOverlap
    /\ conv.pc = "failed"
    /\ conv.load_called
    /\ conv.error = "AirflowException: Can't specify the same path in select and exclude"

\* C6: with a credential whose type is not postgres, execute reports the
\* message on the error stream and exits the process with a non-zero
\* code, and no command is built and no subprocess launched.
C6_UnsupportedConnectionExits ==
    \A p \in Procs :
        (pc[p] = "done" /\ get_connection(op[p].conn_id).conn_type # PyStr(Chars_postgres)) =>
            /\ outcome[p].signal = "SystemExit"
            /\ outcome[p].stderr # <<>>
            /\ outcome[p].exit_status \notin {None, PyInt(0)}
            /\ frame[p].cmd = <<>>
            /\ ~Launched(p)

BadProjectDir(d) == d # None /\ PathKind(d) # "dir"

\* C7: a project path that is missing or not a directory makes execute
\* raise when the command is built, before the subprocess is launched;
\* no subprocess is started in a working directory that does not exist or
\* is not a directory.
C7_NoLaunchInBadDirectory ==
    \A p \in Procs :
        /\ Launched(p) => ~BadProjectDir(outcome[p].launched.cwd)
        /\ (pc[p] = "run_command") => ~BadProjectDir(op[p].project_dir)
        /\ (pc[p] = "done" /\ BadProjectDir(op[p].project_dir) /\ frame[p].profile # None) =>
               /\ outcome[p].raised_in = "build_command"
               /\ outcome[p].signal \in {"AirflowException: Can not find the project_dir",
                                         "AirflowException: The project_dir must be a directory"}
               /\ frame[p].cmd = <<>>

C7_Witness ==
    \E p \in Procs :
        /\ pc[p] = "done"
        /\ op[p].project_dir = PathF
        /\ outcome[p].raised_in = "build_command"
        /\ ~Launched(p)

IsLocalOrVirtualenv(mode) ==
    mode \in {S_local, S_virtualenv, Enum("ExecutionMode", S_local), Enum("ExecutionMode", S_virtualenv)}

\* C8: with execution mode local or virtualenv (as a string, as an enum
\* member or by default) and no profile configuration, construction
\* raises at once, before the graph is loaded or any task is created.
C8_ProfileConfigRequired ==
    (IsLocalOrVirtualenv(conv.args.execution_mode) /\ conv.args.profile_config = None
        /\ conv.pc \notin {"off", "start"}) =>
        /\ conv.pc = "failed"
        /\ conv.error = "ValueError: a ProfileConfig must be provided"
        /\ ~conv.load_called
        /\ ~conv.build_called

\* C9: starting with neither the profile directory nor the profile file,
\* under every interleaving of concurrent executions none of them fails in
\* create_default_profiles.
C9_NoFailureInProfileInit ==
    (~fs_log.dir_at_start /\ fs_log.file_at_start = Absent) =>
        \A p \in Procs :
            /\ outcome[p].raised_in # "create_default_profiles"
            /\ outcome[p].signal # "FileExistsError"

\* C10: executions leave the operator's declared env map as it was: it
\* holds exactly the keys and values the user declared.
C10_DeclaredEnvUnchanged == \A p \in Procs : op[p].env = declared[p].env
====
